---------------------------- MODULE Spec2Model ----------------------------
(***************************************************************************)
(* The in-memory recipe/ingredient data layer of node-graphql (data.js)    *)
(* and the GraphQL resolvers that call it.                                 *)
(*                                                                         *)
(* JavaScript strings are modelled as sequences of one-character strings,  *)
(* so that toLowerCase, String.prototype.includes and String(n) are        *)
(* computed rather than assumed.  A JavaScript value is a record           *)
(* [k, s, n, a]: k is its type tag, s the characters of a string, n the    *)
(* value of an (integer) number and a the elements of an array.            *)
(***************************************************************************)
EXTENDS Integers, Sequences, FiniteSets, TLC

(***************************************************************************)
(* Bounds of the model.                                                    *)
(***************************************************************************)
\* number of requests that may be in flight at once
NumReq == 2
\* longest search query drawn as an input
MaxQueryLen == 3
\* longest id array drawn as an input
MaxIdsLen == 2
\* number of times a caller may mutate an array it was handed
MaxMutations == 2

(***************************************************************************)
(* Seed data: data.js lines 2-55.                                          *)
(***************************************************************************)
SeedRecipes ==
  <<
    [id |-> <<"1">>,
     name |-> <<"C", "h", "i", "c", "k", "e", "n", " ", "T", "i", "k", "k", "a", " ", "M", "a", "s", "a", "l", "a">>,
     steps |-> [k |-> "str", t |-> "1. Marinate chicken in yogurt and spices\n2. Grill chicken until charred\n3. Make tomato-cream sauce\n4. Combine and simmer"],
     cookTime |-> 45, difficulty |-> "medium",
     ingredientIds |-> <<<<"1">>, <<"2">>, <<"3">>, <<"4">>>>],
    [id |-> <<"2">>,
     name |-> <<"S", "p", "a", "g", "h", "e", "t", "t", "i", " ", "C", "a", "r", "b", "o", "n", "a", "r", "a">>,
     steps |-> [k |-> "str", t |-> "1. Cook spaghetti\n2. Fry pancetta\n3. Mix eggs and cheese\n4. Combine while hot"],
     cookTime |-> 20, difficulty |-> "easy",
     ingredientIds |-> <<<<"5">>, <<"6">>, <<"7">>, <<"8">>>>],
    [id |-> <<"3">>,
     name |-> <<"B", "e", "e", "f", " ", "T", "a", "c", "o", "s">>,
     steps |-> [k |-> "str", t |-> "1. Season and cook ground beef\n2. Warm tortillas\n3. Assemble with toppings"],
     cookTime |-> 15, difficulty |-> "easy",
     ingredientIds |-> <<<<"9">>, <<"1", "0">>, <<"1", "1">>, <<"1", "2">>>>],
    [id |-> <<"4">>,
     name |-> <<"V", "e", "g", "e", "t", "a", "b", "l", "e", " ", "S", "t", "i", "r", " ", "F", "r", "y">>,
     steps |-> [k |-> "null", t |-> ""],
     cookTime |-> 15, difficulty |-> "easy",
     ingredientIds |-> <<<<"1", "3">>, <<"1", "4">>, <<"1", "5">>, <<"1", "6">>>>]
  >>

\* the sixteen ingredient literals as written
ingredientRows ==
  <<
    [id |-> <<"1">>, name |-> <<"C", "h", "i", "c", "k", "e", "n">>, quantity |-> "1 lb"],
    [id |-> <<"2">>, name |-> <<"Y", "o", "g", "u", "r", "t">>, quantity |-> "1 cup"],
    [id |-> <<"3">>, name |-> <<"T", "o", "m", "a", "t", "o", " ", "S", "a", "u", "c", "e">>, quantity |-> "2 cups"],
    [id |-> <<"4">>, name |-> <<"C", "r", "e", "a", "m">>, quantity |-> "1/2 cup"],
    [id |-> <<"5">>, name |-> <<"S", "p", "a", "g", "h", "e", "t", "t", "i">>, quantity |-> "1 lb"],
    [id |-> <<"6">>, name |-> <<"P", "a", "n", "c", "e", "t", "t", "a">>, quantity |-> "200g"],
    [id |-> <<"7">>, name |-> <<"E", "g", "g", "s">>, quantity |-> "4"],
    [id |-> <<"8">>, name |-> <<"P", "a", "r", "m", "e", "s", "a", "n", " ", "C", "h", "e", "e", "s", "e">>, quantity |-> "1 cup"],
    [id |-> <<"9">>, name |-> <<"G", "r", "o", "u", "n", "d", " ", "B", "e", "e", "f">>, quantity |-> "1 lb"],
    [id |-> <<"1", "0">>, name |-> <<"T", "o", "r", "t", "i", "l", "l", "a", "s">>, quantity |-> "8"],
    [id |-> <<"1", "1">>, name |-> <<"L", "e", "t", "t", "u", "c", "e">>, quantity |-> "1 head"],
    [id |-> <<"1", "2">>, name |-> <<"S", "a", "l", "s", "a">>, quantity |-> "to taste"],
    [id |-> <<"1", "3">>, name |-> <<"B", "r", "o", "c", "c", "o", "l", "i">>, quantity |-> "2 cups"],
    [id |-> <<"1", "4">>, name |-> <<"B", "e", "l", "l", " ", "P", "e", "p", "p", "e", "r", "s">>, quantity |-> "2"],
    [id |-> <<"1", "5">>, name |-> <<"S", "o", "y", " ", "S", "a", "u", "c", "e">>, quantity |-> "3 tbsp"],
    [id |-> <<"1", "6">>, name |-> <<"G", "a", "r", "l", "i", "c">>, quantity |-> "4 cloves"]
  >>

\* a copy-and-paste slip in the literals: "12" typed as "11"
SeedIngredients_DupId == [ingredientRows EXCEPT ![12].id = <<"1", "1">>]

SeedIngredients == ingredientRows

(***************************************************************************)
(* JavaScript values.                                                      *)
(***************************************************************************)
StrV(s) == [k |-> "str", s |-> s, n |-> 0, a |-> <<>>]
NumV(n) == [k |-> "num", s |-> <<>>, n |-> n, a |-> <<>>]
NullV == [k |-> "null", s |-> <<>>, n |-> 0, a |-> <<>>]
UndefV == [k |-> "undefined", s |-> <<>>, n |-> 0, a |-> <<>>]
ArrV(a) == [k |-> "arr", s |-> <<>>, n |-> 0, a |-> a]

\* What a call hands back: undefined, one record, an array, or a thrown
\* TypeError.  ref tells which array object an array result is: the store's
\* own array ("recipes") or an array allocated by the call ("fresh").
NoRec == [id |-> <<>>]
UndefinedRet == [k |-> "undefined", r |-> NoRec, a |-> <<>>, ref |-> "none"]
RecRet(r) == [k |-> "rec", r |-> r, a |-> <<>>, ref |-> "none"]
ArrRet(a, ref) == [k |-> "arr", r |-> NoRec, a |-> a, ref |-> ref]
TypeErrorRet == [k |-> "TypeError", r |-> NoRec, a |-> <<>>, ref |-> "none"]

(***************************************************************************)
(* String.prototype.toLowerCase, on the ASCII letters.                     *)
(***************************************************************************)
LowerOf ==
  ("A" :> "a") @@ ("B" :> "b") @@ ("C" :> "c") @@ ("D" :> "d") @@ ("E" :> "e") @@
  ("F" :> "f") @@ ("G" :> "g") @@ ("H" :> "h") @@ ("I" :> "i") @@ ("J" :> "j") @@
  ("K" :> "k") @@ ("L" :> "l") @@ ("M" :> "m") @@ ("N" :> "n") @@ ("O" :> "o") @@
  ("P" :> "p") @@ ("Q" :> "q") @@ ("R" :> "r") @@ ("S" :> "s") @@ ("T" :> "t") @@
  ("U" :> "u") @@ ("V" :> "v") @@ ("W" :> "w") @@ ("X" :> "x") @@ ("Y" :> "y") @@
  ("Z" :> "z")

RECURSIVE toLowerCase(_)
toLowerCase(s) ==
  IF s = <<>> THEN <<>>
  ELSE <<IF Head(s) \in DOMAIN LowerOf THEN LowerOf[Head(s)] ELSE Head(s)>>
         \o toLowerCase(Tail(s))

(***************************************************************************)
(* String.prototype.includes(search): scan the start positions from the    *)
(* left, comparing character by character at each.                         *)
(***************************************************************************)
RECURSIVE matchAt(_, _, _, _)
matchAt(s, search, pos, j) ==
  IF j > Len(search) THEN TRUE
  ELSE IF pos + j - 1 > Len(s) THEN FALSE
  ELSE IF s[pos + j - 1] # search[j] THEN FALSE
  ELSE matchAt(s, search, pos, j + 1)

RECURSIVE indexFrom(_, _, _)
indexFrom(s, search, pos) ==
  IF pos + Len(search) - 1 > Len(s) THEN FALSE
  ELSE IF matchAt(s, search, pos, 1) THEN TRUE
  ELSE indexFrom(s, search, pos + 1)

stringIncludes(s, search) == indexFrom(s, search, 1)

(***************************************************************************)
(* String(value): the string form of a value.                              *)
(***************************************************************************)
Digits == <<"0", "1", "2", "3", "4", "5", "6", "7", "8", "9">>

RECURSIVE numberToString(_)
numberToString(n) ==
  IF n < 0 THEN <<"-">> \o numberToString(-n)
  ELSE IF n < 10 THEN <<Digits[n + 1]>>
  ELSE numberToString(n \div 10) \o <<Digits[(n % 10) + 1]>>

\* the string form of a value that is not an array
scalarToString(v) ==
  CASE v.k = "str" -> v.s
    [] v.k = "num" -> numberToString(v.n)
    [] v.k = "null" -> <<"n", "u", "l", "l">>
    [] OTHER -> <<"u", "n", "d", "e", "f", "i", "n", "e", "d">>

\* Array.prototype.join(","): null and undefined elements give ""
RECURSIVE arrayJoin(_, _)
arrayJoin(a, i) ==
  IF i > Len(a) THEN <<>>
  ELSE (IF i > 1 THEN <<",">> ELSE <<>>)
       \o (IF a[i].k \in {"null", "undefined"} THEN <<>> ELSE scalarToString(a[i]))
       \o arrayJoin(a, i + 1)

String(v) == IF v.k = "arr" THEN arrayJoin(v.a, 1) ELSE scalarToString(v)

(***************************************************************************)
(* Array.prototype.includes(x) for a string x: SameValueZero, so only a    *)
(* string element with the same characters matches.                        *)
(***************************************************************************)
RECURSIVE arrayIncludes(_, _, _)
arrayIncludes(a, x, i) ==
  IF i > Len(a) THEN FALSE
  ELSE IF a[i].k = "str" /\ a[i].s = x THEN TRUE
  ELSE arrayIncludes(a, x, i + 1)

(***************************************************************************)
(* data.js: the five exported functions, over the arrays they read.        *)
(***************************************************************************)
\* Array.prototype.find(rec => rec.id === key)
RECURSIVE findById(_, _, _)
findById(arr, key, i) ==
  IF i > Len(arr) THEN UndefinedRet
  ELSE IF arr[i].id = key THEN RecRet(arr[i])
  ELSE findById(arr, key, i + 1)

\* Array.prototype.filter(recipe => recipe.name.toLowerCase().includes(term))
RECURSIVE filterByName(_, _, _)
filterByName(arr, searchTerm, i) ==
  IF i > Len(arr) THEN <<>>
  ELSE (IF stringIncludes(toLowerCase(arr[i].name), searchTerm)
          THEN <<arr[i]>> ELSE <<>>)
       \o filterByName(arr, searchTerm, i + 1)

\* does ingredientIds.includes(id) hold?  ingredientIds is an array or a string
idsInclude(ingredientIds, id) ==
  IF ingredientIds.k = "arr" THEN arrayIncludes(ingredientIds.a, id, 1)
  ELSE stringIncludes(ingredientIds.s, id)

\* Array.prototype.filter(ingredient => ingredientIds.includes(ingredient.id))
RECURSIVE filterByIds(_, _, _)
filterByIds(arr, ingredientIds, i) ==
  IF i > Len(arr) THEN <<>>
  ELSE (IF idsInclude(ingredientIds, arr[i].id) THEN <<arr[i]>> ELSE <<>>)
       \o filterByIds(arr, ingredientIds, i + 1)

\* filter written for find: an array of the matches, never undefined
RECURSIVE filterById(_, _, _)
filterById(arr, key, i) ==
  IF i > Len(arr) THEN <<>>
  ELSE (IF arr[i].id = key THEN <<arr[i]>> ELSE <<>>) \o filterById(arr, key, i + 1)
getRecipeById_Filter(recs, id) == ArrRet(filterById(recs, String(id), 1), "fresh")

\* the comparison without String(): recipe.id === id
getRecipeById_Strict(recs, id) ==
  IF id.k = "str" THEN findById(recs, id.s, 1) ELSE UndefinedRet

getRecipeById(recs, id) == findById(recs, String(id), 1)

\* an off-by-one copy: return recipes.slice(1)
getAllRecipes_Slice1(recs) ==
  ArrRet(IF recs = <<>> THEN recs ELSE Tail(recs), "fresh")

getAllRecipes(recs) == ArrRet(recs, "recipes")

\* the query not lower-cased: recipe.name.toLowerCase().includes(query)
searchRecipes_CaseSensitive(recs, query) ==
  IF query.k # "str" THEN TypeErrorRet
  ELSE ArrRet(filterByName(recs, query.s, 1), "fresh")

\* the query coerced first: String(query).toLowerCase()
searchRecipes_Coerce(recs, query) ==
  ArrRet(filterByName(recs, toLowerCase(String(query)), 1), "fresh")

searchRecipes(recs, query) ==
  IF query.k # "str" THEN TypeErrorRet
  ELSE ArrRet(filterByName(recs, toLowerCase(query.s), 1), "fresh")

\* the lookup driven by the ids: ingredientIds.map(id => find).filter(Boolean)
RECURSIVE mapFind(_, _, _)
mapFind(ings, a, i) ==
  IF i > Len(a) THEN <<>>
  ELSE LET hit == IF a[i].k = "str" THEN findById(ings, a[i].s, 1) ELSE UndefinedRet
       IN (IF hit.k = "rec" THEN <<hit.r>> ELSE <<>>) \o mapFind(ings, a, i + 1)
getIngredientsByIds_InputOrder(ings, ingredientIds) ==
  IF ingredientIds.k = "arr" THEN ArrRet(mapFind(ings, ingredientIds.a, 1), "fresh")
  ELSE TypeErrorRet

getIngredientsByIds(ings, ingredientIds) ==
  IF ingredientIds.k \in {"arr", "str"}
    THEN ArrRet(filterByIds(ings, ingredientIds, 1), "fresh")
  ELSE IF Len(ings) = 0 THEN ArrRet(<<>>, "fresh")
  ELSE TypeErrorRet

getIngredientById(ings, id) == findById(ings, String(id), 1)

(***************************************************************************)
(* Inputs.                                                                 *)
(***************************************************************************)
\* all sequences over S of length at most n
RECURSIVE SeqsUpTo(_, _)
SeqsUpTo(S, n) ==
  IF n = 0 THEN {<<>>}
  ELSE LET shorter == SeqsUpTo(S, n - 1)
       IN shorter \cup {Append(s, x) : s \in {t \in shorter : Len(t) = n - 1}, x \in S}

QueryChars == {"c", "C", "h", "H", "i", "t", "T", " ", "z"}
Queries ==
  SeqsUpTo(QueryChars, MaxQueryLen)
    \cup {<<"C", "H", "I", "C", "K", "E", "N">>, <<"c", "h", "i", "c", "k", "e", "n">>,
          <<"t", "i", "k", "k", "a">>, <<"S", "t", "i", "r", " ", "F", "R", "Y">>}

\* ids as strings, known and unknown ("1", "16", "01", "999", "", "null", ...)
IdStrings ==
  SeqsUpTo({"0", "1", "4", "6", "9"}, 2)
    \cup {<<"9", "9", "9">>, <<"n", "u", "l", "l">>, <<"1", ",", "4">>, <<"-", "1">>}
IdNumbers == {-1, 0, 1, 2, 3, 4, 5, 10, 16, 17, 999}
IdValues ==
  {StrV(s) : s \in IdStrings} \cup {NumV(n) : n \in IdNumbers}
    \cup {NullV, UndefV, ArrV(<<StrV(<<"1">>)>>), ArrV(<<NumV(1), NumV(4)>>)}

\* elements of the id arrays handed to getIngredientsByIds
IdElems ==
  {StrV(<<"1">>), StrV(<<"2">>), StrV(<<"1", "0">>), StrV(<<"1", "6">>),
   StrV(<<"9", "9", "9">>), NumV(1), NumV(16), NullV}
IdArrays == {ArrV(a) : a \in SeqsUpTo(IdElems, MaxIdsLen)}

Call(op, arg) == [op |-> op, arg |-> arg]
NoCall == Call("none", UndefV)

\* the calls drawn when one call is examined at a time
FnCalls ==
  {Call("getRecipeById", v) : v \in IdValues}
    \cup {Call("getIngredientById", v) : v \in IdValues}
    \cup {Call("getAllRecipes", UndefV)}
    \cup {Call("searchRecipes", StrV(q)) : q \in Queries}
    \cup {Call("searchRecipes", v) : v \in {NullV, UndefV, NumV(1)}}
    \cup {Call("getIngredientsByIds", v) : v \in IdArrays}
    \cup {Call("getIngredientsByIds", v) :
            v \in {NullV, UndefV, NumV(1), StrV(<<"1", "2">>), StrV(<<>>)}}

\* the calls drawn by concurrent requests
ConcCalls ==
  {Call("getRecipeById", StrV(<<"1">>)), Call("getRecipeById", NumV(4)),
   Call("getRecipeById", StrV(<<"9", "9", "9">>)),
   Call("getIngredientById", StrV(<<"1", "6">>)), Call("getIngredientById", NumV(0)),
   Call("getAllRecipes", UndefV),
   Call("searchRecipes", StrV(<<"C", "H", "I">>)), Call("searchRecipes", StrV(<<>>)),
   Call("searchRecipes", StrV(<<"t", "a">>)),
   Call("getIngredientsByIds", ArrV(<<StrV(<<"2">>), StrV(<<"1">>), StrV(<<"2">>)>>)),
   Call("getIngredientsByIds", ArrV(<<StrV(<<"9", "9", "9">>), StrV(<<"1", "0">>)>>)),
   Call("getIngredientsByIds", ArrV(<<>>))}

(***************************************************************************)
(* State.                                                                  *)
(***************************************************************************)
VARIABLES
  recipes,      \* the array bound to `recipes` in data.js
  ingredients,  \* the array bound to `ingredients` in data.js
  pc,           \* per request: "idle", "called" (a call is due), "done"
  call,         \* per request: the call it makes
  res,          \* per request: what the call returned
  view,         \* per request: the contents now of the fresh array it was handed
  mutations,    \* how often a caller has mutated an array it was handed
  \* consumer-grpc.js, the GET / handler:
  hpc,          \* where the handler is: "idle", "awaiting", "responded", "failed"
  rpc,          \* per call of the list: how it stands and what it came back with
  reacted,      \* the calls whose settlement Promise.all has reacted to
  all,          \* the promise Promise.all returned
  reply,        \* what the handler returned to fastify
  order         \* the calls in the order they completed

dataVars == <<recipes, ingredients, pc, call, res, view, mutations>>
grpcVars == <<hpc, rpc, reacted, all, reply, order>>
vars == <<recipes, ingredients, pc, call, res, view, mutations,
          hpc, rpc, reacted, all, reply, order>>

\* the four calls of the list, by position
Calls == 1..4
NoVal == [method |-> "none", data |-> "none"]
NoReply ==
  [sent |-> FALSE, consumer_pid |-> "none", producer_data |-> NoVal,
   recipe |-> NoVal, name1 |-> NoVal, name2 |-> NoVal]

\* the consumer before any GET /
GrpcIdle ==
  /\ hpc = "idle"
  /\ rpc = [i \in Calls |-> [st |-> "none", method |-> "none", req |-> "none", val |-> NoVal]]
  /\ reacted = {}
  /\ all = [st |-> "none", values |-> <<>>, reason |-> NoVal]
  /\ reply = NoReply
  /\ order = <<>>

Req == 1..NumReq

\* the contents now of the array object that request p was handed
Contents(p) == IF res[p].ref = "recipes" THEN recipes ELSE view[p]

Init ==
  /\ recipes = SeedRecipes
  /\ ingredients = SeedIngredients
  /\ pc = [p \in Req |-> "idle"]
  /\ call = [p \in Req |-> NoCall]
  /\ res = [p \in Req |-> UndefinedRet]
  /\ view = [p \in Req |-> <<>>]
  /\ mutations = 0
  /\ GrpcIdle

\* a request handler is about to call into data.js
Invoke(p) ==
  /\ pc[p] = "idle"
  /\ \E c \in ConcCalls : call' = [call EXCEPT ![p] = c]
  /\ pc' = [pc EXCEPT ![p] = "called"]
  /\ UNCHANGED <<recipes, ingredients, res, view, mutations>>
  /\ UNCHANGED grpcVars

\* the call of request p returns ret; no function of data.js assigns to
\* recipes or ingredients or calls a mutating method on them
Returns(p, ret) ==
  /\ res' = [res EXCEPT ![p] = ret]
  /\ view' = [view EXCEPT ![p] = IF ret.ref = "fresh" THEN ret.a ELSE <<>>]
  /\ pc' = [pc EXCEPT ![p] = "done"]
  /\ UNCHANGED <<recipes, ingredients, call, mutations>>
  /\ UNCHANGED grpcVars

\* the record taken out of the array: recipes.splice(index, 1)[0]
GetRecipeById_Splice(p) ==
  /\ pc[p] = "called" /\ call[p].op = "getRecipeById"
  /\ LET ret == getRecipeById(recipes, call[p].arg)
         keep(r) == r.id # String(call[p].arg)
     IN /\ res' = [res EXCEPT ![p] = ret]
        /\ recipes' = SelectSeq(recipes, keep)
  /\ pc' = [pc EXCEPT ![p] = "done"]
  /\ UNCHANGED <<ingredients, call, view, mutations>>
  /\ UNCHANGED grpcVars

GetRecipeById(p) ==
  /\ pc[p] = "called" /\ call[p].op = "getRecipeById"
  /\ Returns(p, getRecipeById(recipes, call[p].arg))

\* the array reversed in place on the way out: return recipes.reverse()
GetAllRecipes_Reverse(p) ==
  /\ pc[p] = "called" /\ call[p].op = "getAllRecipes"
  /\ LET rev == [i \in 1..Len(recipes) |-> recipes[Len(recipes) + 1 - i]]
     IN /\ recipes' = rev
        /\ res' = [res EXCEPT ![p] = ArrRet(rev, "recipes")]
  /\ pc' = [pc EXCEPT ![p] = "done"]
  /\ UNCHANGED <<ingredients, call, view, mutations>>
  /\ UNCHANGED grpcVars

GetAllRecipes(p) ==
  /\ pc[p] = "called" /\ call[p].op = "getAllRecipes"
  /\ Returns(p, getAllRecipes(recipes))

SearchRecipes(p) ==
  /\ pc[p] = "called" /\ call[p].op = "searchRecipes"
  /\ Returns(p, searchRecipes(recipes, call[p].arg))

GetIngredientsByIds(p) ==
  /\ pc[p] = "called" /\ call[p].op = "getIngredientsByIds"
  /\ Returns(p, getIngredientsByIds(ingredients, call[p].arg))

GetIngredientById(p) ==
  /\ pc[p] = "called" /\ call[p].op = "getIngredientById"
  /\ Returns(p, getIngredientById(ingredients, call[p].arg))

\* the request is answered and its handler's locals are dropped
Respond(p) ==
  /\ pc[p] = "done"
  /\ pc' = [pc EXCEPT ![p] = "idle"]
  /\ call' = [call EXCEPT ![p] = NoCall]
  /\ res' = [res EXCEPT ![p] = UndefinedRet]
  /\ view' = [view EXCEPT ![p] = <<>>]
  /\ UNCHANGED <<recipes, ingredients, mutations>>
  /\ UNCHANGED grpcVars

Next ==
  \E p \in Req :
    \/ Invoke(p)
    \/ GetRecipeById(p)
    \/ GetAllRecipes(p)
    \/ SearchRecipes(p)
    \/ GetIngredientsByIds(p)
    \/ GetIngredientById(p)
    \/ Respond(p)

Spec == Init /\ [][Next]_vars

(***************************************************************************)
(* One call at a time, its argument drawn from the larger input sets.      *)
(***************************************************************************)
InitFn ==
  /\ recipes = SeedRecipes
  /\ ingredients = SeedIngredients
  /\ pc = [p \in Req |-> IF p = 1 THEN "called" ELSE "idle"]
  /\ \E c \in FnCalls : call = [p \in Req |-> IF p = 1 THEN c ELSE NoCall]
  /\ res = [p \in Req |-> UndefinedRet]
  /\ view = [p \in Req |-> <<>>]
  /\ mutations = 0
  /\ GrpcIdle

NextFn ==
  \E p \in Req :
    \/ GetRecipeById(p)
    \/ GetAllRecipes(p)
    \/ SearchRecipes(p)
    \/ GetIngredientsByIds(p)
    \/ GetIngredientById(p)
    \/ Respond(p)

SpecFn == InitFn /\ [][NextFn]_vars

(***************************************************************************)
(* A caller that writes to an array it was handed.  An array returned by   *)
(* reference is the same object for the caller and for data.js.            *)
(***************************************************************************)
NewRecipe ==
  [id |-> <<"5">>, name |-> <<"S", "o", "u", "p">>, steps |-> [k |-> "null", t |-> ""],
   cookTime |-> 5, difficulty |-> "easy", ingredientIds |-> <<>>]

\* Array.prototype.pop, Array.prototype.push(NewRecipe), arr[0] = NewRecipe
Mutate(arr, how) ==
  CASE how = "pop" -> IF arr = <<>> THEN arr ELSE SubSeq(arr, 1, Len(arr) - 1)
    [] how = "push" -> Append(arr, NewRecipe)
    [] OTHER -> IF arr = <<>> THEN <<NewRecipe>> ELSE [arr EXCEPT ![1] = NewRecipe]

CallerMutates(p) ==
  /\ pc[p] = "done" /\ res[p].k = "arr"
  /\ mutations < MaxMutations
  /\ \E how \in {"pop", "push", "set"} :
       LET new == Mutate(Contents(p), how)
       IN /\ new # Contents(p)
          /\ IF res[p].ref = "recipes"
               THEN recipes' = new /\ UNCHANGED view
               ELSE view' = [view EXCEPT ![p] = new] /\ UNCHANGED recipes
  /\ mutations' = mutations + 1
  /\ UNCHANGED <<ingredients, pc, call, res>>
  /\ UNCHANGED grpcVars

NextCaller ==
  \E p \in Req :
    \/ Invoke(p)
    \/ GetRecipeById(p)
    \/ GetAllRecipes(p)
    \/ SearchRecipes(p)
    \/ GetIngredientsByIds(p)
    \/ GetIngredientById(p)
    \/ Respond(p)
    \/ CallerMutates(p)

SpecCaller == Init /\ [][NextCaller]_vars

(***************************************************************************)
(* What the claims are stated with: declarative counterparts of the scans  *)
(* above.                                                                  *)
(***************************************************************************)
UpperLetters ==
  <<"A", "B", "C", "D", "E", "F", "G", "H", "I", "J", "K", "L", "M",
    "N", "O", "P", "Q", "R", "S", "T", "U", "V", "W", "X", "Y", "Z">>
LowerLetters ==
  <<"a", "b", "c", "d", "e", "f", "g", "h", "i", "j", "k", "l", "m",
    "n", "o", "p", "q", "r", "s", "t", "u", "v", "w", "x", "y", "z">>

LowerCased(s) ==
  [i \in 1..Len(s) |->
     IF \E j \in 1..26 : UpperLetters[j] = s[i]
       THEN LowerLetters[CHOOSE j \in 1..26 : UpperLetters[j] = s[i]]
       ELSE s[i]]

\* t occurs in s as a contiguous run of characters
IsSubstring(t, s) ==
  \E i \in 0..(Len(s) - Len(t)) : \A j \in 1..Len(t) : s[i + j] = t[j]

Done(p, op) == pc[p] = "done" /\ call[p].op = op

\* the store a point lookup reads
StoreOf(op) == IF op = "getRecipeById" THEN recipes ELSE ingredients

\* the positions of store S whose record has the id key
Holders(S, key) == {i \in 1..Len(S) : S[i].id = key}

\* what the call c returns when it is the only call, on the seed data
RunAlone(c) ==
  CASE c.op = "getRecipeById" -> getRecipeById(SeedRecipes, c.arg)
    [] c.op = "getAllRecipes" -> getAllRecipes(SeedRecipes)
    [] c.op = "searchRecipes" -> searchRecipes(SeedRecipes, c.arg)
    [] c.op = "getIngredientsByIds" -> getIngredientsByIds(SeedIngredients, c.arg)
    [] OTHER -> getIngredientById(SeedIngredients, c.arg)

(***************************************************************************)
(* C1.  searchRecipes(query), for a string query, returns exactly the      *)
(* recipes whose lower-cased name contains the lower-cased query as a      *)
(* substring, in store order; so the empty query returns every recipe and  *)
(* the result does not depend on the case of the query's letters.          *)
(***************************************************************************)
C1_SearchIsCaseInsensitiveSubstring ==
  \A p \in Req :
    (Done(p, "searchRecipes") /\ call[p].arg.k = "str") =>
      LET q == call[p].arg.s
          Matches(r) == IsSubstring(LowerCased(q), LowerCased(r.name))
      IN /\ res[p].k = "arr"
         /\ res[p].a = SelectSeq(recipes, Matches)
         /\ (q = <<>> => res[p].a = recipes)
         /\ res[p].a = searchRecipes(recipes, StrV(LowerCased(q))).a

\* a query with a capital letter that matches recipes 1, 2 and 4 and not 3
C1_Witness ==
  \E p \in Req :
    /\ Done(p, "searchRecipes") /\ call[p].arg.k = "str"
    /\ call[p].arg.s = <<"T", "i">>
    /\ Len(res[p].a) = 3
    /\ res[p].a[1].id = <<"1">> /\ res[p].a[2].id = <<"2">> /\ res[p].a[3].id = <<"4">>

(***************************************************************************)
(* C2.  getIngredientsByIds(ids), for an array ids, returns exactly the    *)
(* ingredient records whose id is an element of ids, each once, in store   *)
(* order whatever the order of ids; so the result is no longer than the    *)
(* number of distinct known ids in ids, and is empty for the empty array.  *)
(***************************************************************************)
C2_ByIdsIsStoreOrderedSelection ==
  \A p \in Req :
    (Done(p, "getIngredientsByIds") /\ call[p].arg.k = "arr") =>
      LET ids == call[p].arg.a
          Asked(r) == \E i \in 1..Len(ids) : ids[i] = StrV(r.id)
          known == {ids[i].s : i \in {j \in 1..Len(ids) :
                       ids[j].k = "str" /\ Holders(ingredients, ids[j].s) # {}}}
          out == res[p].a
      IN /\ res[p].k = "arr"
         /\ out = SelectSeq(ingredients, Asked)
         /\ \A i, j \in 1..Len(out) : i # j => out[i].id # out[j].id
         /\ Len(out) <= Cardinality(known)
         /\ (ids = <<>> => out = <<>>)

\* ids given against store order: ["10", "1"] returns records 1 and 10
C2_Witness ==
  \E p \in Req :
    /\ Done(p, "getIngredientsByIds")
    /\ call[p].arg = ArrV(<<StrV(<<"1", "0">>), StrV(<<"1">>)>>)
    /\ Len(res[p].a) = 2
    /\ res[p].a[1].id = <<"1">> /\ res[p].a[2].id = <<"1", "0">>

(***************************************************************************)
(* C3.  getRecipeById(id) and getIngredientById(id), for a string id: when *)
(* a record of the store has that id, exactly one has, and it is returned; *)
(* when none has, undefined is returned (and nothing is thrown).           *)
(***************************************************************************)
C3_PointLookup ==
  \A p \in Req :
    \A op \in {"getRecipeById", "getIngredientById"} :
      (Done(p, op) /\ call[p].arg.k = "str") =>
        LET at == Holders(StoreOf(op), call[p].arg.s)
        IN IF at = {} THEN res[p] = UndefinedRet
           ELSE /\ Cardinality(at) = 1
                /\ res[p] = RecRet(StoreOf(op)[CHOOSE i \in at : TRUE])

\* a lookup that finds the last ingredient
C3_Witness ==
  \E p \in Req :
    /\ Done(p, "getIngredientById")
    /\ call[p].arg = StrV(<<"1", "6">>)
    /\ res[p].k = "rec" /\ res[p].r.quantity = "4 cloves"

(***************************************************************************)
(* C4, as claimed.  No call of the five functions ends in a thrown error,  *)
(* whatever the argument: string, number, null, undefined or array.        *)
(***************************************************************************)
C4_NeverThrows ==
  \A p \in Req : pc[p] = "done" => res[p].k # "TypeError"

(***************************************************************************)
(* C4, amended.  getRecipeById, getIngredientById and getAllRecipes never  *)
(* throw, and not-found is the normal return value undefined.              *)
(* searchRecipes throws (a TypeError) exactly when its query is not a      *)
(* string, and getIngredientsByIds exactly when its argument is neither an *)
(* array nor a string.                                                     *)
(***************************************************************************)
C4_ThrowsExactlyOnMethodlessArgument ==
  \A p \in Req :
    pc[p] = "done" =>
      /\ res[p].k = "TypeError" <=>
           \/ call[p].op = "searchRecipes" /\ call[p].arg.k # "str"
           \/ call[p].op = "getIngredientsByIds" /\ call[p].arg.k \notin {"arr", "str"}
      /\ (call[p].op \in {"getRecipeById", "getIngredientById"}
            /\ Holders(StoreOf(call[p].op), String(call[p].arg)) = {})
           => res[p] = UndefinedRet

\* a point lookup handed null returns undefined
C4_Witness ==
  \E p \in Req :
    /\ Done(p, "getRecipeById") /\ call[p].arg = NullV
    /\ res[p] = UndefinedRet

(***************************************************************************)
(* C6, as claimed.  Every id-taking function compares after String(): a    *)
(* numeric id n gives what its string form gives, in getRecipeById, in     *)
(* getIngredientById and, as the one element of the array, in              *)
(* getIngredientsByIds.                                                    *)
(***************************************************************************)
C6_CoercedEverywhere ==
  \A p \in Req :
    /\ (Done(p, "getRecipeById") /\ call[p].arg.k = "num") =>
         res[p] = getRecipeById(recipes, StrV(numberToString(call[p].arg.n)))
    /\ (Done(p, "getIngredientById") /\ call[p].arg.k = "num") =>
         res[p] = getIngredientById(ingredients, StrV(numberToString(call[p].arg.n)))
    /\ (Done(p, "getIngredientsByIds") /\ call[p].arg.k = "arr"
          /\ Len(call[p].arg.a) = 1 /\ call[p].arg.a[1].k = "num") =>
         res[p] = getIngredientsByIds(ingredients,
                    ArrV(<<StrV(numberToString(call[p].arg.a[1].n))>>))

(***************************************************************************)
(* C6, amended.  The point lookups compare after String(): for a numeric   *)
(* id n, getRecipeById(n) and getIngredientById(n) return the record whose *)
(* id is the decimal form of n, or undefined when there is none, as they   *)
(* do for that string.  getIngredientsByIds compares without coercion: a   *)
(* numeric element matches no record, so getIngredientsByIds([n]) is empty.*)
(***************************************************************************)
C6_CoercedInPointLookupsOnly ==
  \A p \in Req :
    /\ \A op \in {"getRecipeById", "getIngredientById"} :
         (Done(p, op) /\ call[p].arg.k = "num") =>
           LET at == Holders(StoreOf(op), numberToString(call[p].arg.n))
           IN /\ res[p] = IF at = {} THEN UndefinedRet
                          ELSE RecRet(StoreOf(op)[CHOOSE i \in at : TRUE])
              /\ res[p] = IF op = "getRecipeById"
                            THEN getRecipeById(recipes, StrV(numberToString(call[p].arg.n)))
                            ELSE getIngredientById(ingredients,
                                                   StrV(numberToString(call[p].arg.n)))
    /\ (Done(p, "getIngredientsByIds") /\ call[p].arg.k = "arr"
          /\ Len(call[p].arg.a) = 1 /\ call[p].arg.a[1].k = "num") =>
         res[p] = ArrRet(<<>>, "fresh")

\* the number 4 finds the recipe "4"
C6_Witness ==
  \E p \in Req :
    /\ Done(p, "getRecipeById") /\ call[p].arg = NumV(4)
    /\ res[p].k = "rec" /\ res[p].r.id = <<"4">>

(***************************************************************************)
(* C5.  The array getAllRecipes returns is independent of the store: once  *)
(* a caller has mutated an array it was handed, the recipe store still     *)
(* holds the seed records, and every getAllRecipes, getRecipeById and      *)
(* searchRecipes call returns what it returns on the seed data.            *)
(***************************************************************************)
C5_IndependentView ==
  mutations > 0 =>
    /\ recipes = SeedRecipes
    /\ \A p \in Req :
         (pc[p] = "done"
            /\ call[p].op \in {"getAllRecipes", "getRecipeById", "searchRecipes"})
           => res[p] = RunAlone(call[p])

(***************************************************************************)
(* C7.  Idempotence.  Two calls of getRecipeById, getAllRecipes,           *)
(* searchRecipes or getIngredientsByIds with the same argument return the  *)
(* same, whatever other calls run between them, and both stores equal the  *)
(* seed data after every call.                                             *)
(***************************************************************************)
C7_Idempotent ==
  /\ recipes = SeedRecipes
  /\ ingredients = SeedIngredients
  /\ \A p, q \in Req :
       (pc[p] = "done" /\ pc[q] = "done" /\ call[p] = call[q]
          /\ call[p].op \in {"getRecipeById", "getAllRecipes", "searchRecipes",
                             "getIngredientsByIds"})
         => res[p] = res[q] /\ Contents(p) = Contents(q)

\* two requests hold the result of the same getAllRecipes call
C7_Witness ==
  \E p, q \in Req :
    /\ p # q
    /\ Done(p, "getAllRecipes") /\ Done(q, "getAllRecipes")
    /\ Len(Contents(p)) = 4 /\ Len(Contents(q)) = 4

(***************************************************************************)
(* C8.  getAllRecipes returns every record of the recipe store in seed     *)
(* order: four records, with ids "1", "2", "3", "4" in that order, the      *)
(* fourth with steps null.                                                 *)
(***************************************************************************)
C8_AllRecipesInSeedOrder ==
  \A p \in Req :
    Done(p, "getAllRecipes") =>
      /\ res[p].k = "arr"
      /\ Len(res[p].a) = 4
      /\ \A i \in 1..4 : res[p].a[i].id = <<Digits[i + 1]>>
      /\ res[p].a[4].steps.k = "null"
      /\ \A i \in 1..3 : res[p].a[i].steps.k = "str"
      /\ res[p].a = recipes

\* a getAllRecipes call has returned, the first record being the tikka masala
C8_Witness ==
  \E p \in Req :
    /\ Done(p, "getAllRecipes")
    /\ res[p].a[1].cookTime = 45 /\ res[p].a[4].cookTime = 15

(***************************************************************************)
(* C9.  Calls of several requests in flight at once do not disturb one     *)
(* another: under every interleaving each call returns what it returns     *)
(* when it is the only call, and the stores are never changed.             *)
(***************************************************************************)
C9_RaceFree ==
  /\ recipes = SeedRecipes
  /\ ingredients = SeedIngredients
  /\ \A p \in Req :
       pc[p] = "done" =>
         /\ res[p] = RunAlone(call[p])
         /\ res[p].k = "arr" => Contents(p) = RunAlone(call[p]).a

\* one request holds a search result while another has asked for a record
\* and not yet been served
C9_Witness ==
  \E p, q \in Req :
    /\ p # q
    /\ Done(p, "searchRecipes") /\ Len(res[p].a) = 1
    /\ pc[q] = "called" /\ call[q].op = "getRecipeById"

(***************************************************************************)
(* C10.  In every reachable state no two records of the recipe store have  *)
(* the same id, and no two records of the ingredient store have.           *)
(***************************************************************************)
C10_IdsUnique ==
  /\ \A i, j \in 1..Len(recipes) : i # j => recipes[i].id # recipes[j].id
  /\ \A i, j \in 1..Len(ingredients) : i # j => ingredients[i].id # ingredients[j].id

\* after calls of both stores' lookups have returned
C10_Witness ==
  \E p, q \in Req :
    /\ Done(p, "getRecipeById") /\ res[p].k = "rec"
    /\ Done(q, "getIngredientsByIds") /\ Len(res[q].a) = 2
    /\ Len(recipes) = 4 /\ Len(ingredients) = 16

(***************************************************************************)
(* resolvers.js: the Recipe.ingredients resolver.  A parent is the recipe  *)
(* object being resolved; the resolver reads its ingredientIds only, which *)
(* is an array of id strings, or is missing (undefined) or null.           *)
(***************************************************************************)
Parent(ingredientIds) == [ingredientIds |-> ingredientIds]

RECURSIVE idValues(_, _)
idValues(ids, i) ==
  IF i > Len(ids) THEN <<>> ELSE <<StrV(ids[i])>> \o idValues(ids, i + 1)

\* the recipe record r as a parent
ParentOfRecipe(r) == Parent(ArrV(idValues(r.ingredientIds, 1)))

\* the parents drawn: the seed recipes, recipes whose ingredientIds are known
\* and unknown ids in any order, with repeats, and recipes without the field
Parents ==
  {ParentOfRecipe(SeedRecipes[i]) : i \in 1..Len(SeedRecipes)}
    \cup {Parent(ArrV(a)) :
            a \in SeqsUpTo({StrV(<<"1">>), StrV(<<"2">>), StrV(<<"1", "0">>),
                            StrV(<<"1", "6">>), StrV(<<"9", "9", "9">>),
                            StrV(<<"0", "1">>)}, MaxIdsLen)}
    \cup {Parent(UndefV), Parent(NullV)}

\* what `x || y` takes for false: undefined, null, 0 and ""
Falsy(v) ==
  \/ v.k \in {"undefined", "null"}
  \/ v.k = "num" /\ v.n = 0
  \/ v.k = "str" /\ v.s = <<>>

\* the resolver without its default: getIngredientsByIds(parent.ingredientIds)
ingredientsResolver_NoDefault(ings, parent) ==
  getIngredientsByIds(ings, parent.ingredientIds)

\* Recipe.ingredients: (parent) => getIngredientsByIds(parent.ingredientIds || [])
ingredientsResolver(ings, parent) ==
  LET ingredientIds ==
        IF Falsy(parent.ingredientIds) THEN ArrV(<<>>) ELSE parent.ingredientIds
  IN getIngredientsByIds(ings, ingredientIds)

ResolveIngredients(p) ==
  /\ pc[p] = "called" /\ call[p].op = "Recipe.ingredients"
  /\ Returns(p, ingredientsResolver(ingredients, call[p].arg))

\* every request resolves the ingredients of the same recipe
InitResolve ==
  /\ recipes = SeedRecipes
  /\ ingredients = SeedIngredients
  /\ pc = [p \in Req |-> "called"]
  /\ \E parent \in Parents : call = [p \in Req |-> Call("Recipe.ingredients", parent)]
  /\ res = [p \in Req |-> UndefinedRet]
  /\ view = [p \in Req |-> <<>>]
  /\ mutations = 0
  /\ GrpcIdle

NextResolve ==
  \E p \in Req :
    \/ ResolveIngredients(p)
    \/ Respond(p)

SpecResolve == InitResolve /\ [][NextResolve]_vars

(***************************************************************************)
(* C11.  Resolving a recipe's ingredients returns exactly the ingredient   *)
(* records whose id is among the recipe's ingredientIds, in store order:   *)
(* an id no record has is dropped, a recipe whose ingredientIds are empty, *)
(* missing or null resolves to the empty sequence, nothing is thrown, and  *)
(* resolving the same recipe again gives the same result and leaves the    *)
(* store as it was.                                                        *)
(***************************************************************************)
C11_ResolvesIngredientsInStoreOrder ==
  /\ ingredients = SeedIngredients
  /\ \A p \in Req :
       Done(p, "Recipe.ingredients") =>
         LET given == call[p].arg.ingredientIds
             ids == IF given.k = "arr" THEN given.a ELSE <<>>
             Asked(r) == \E i \in 1..Len(ids) : ids[i].s = r.id
         IN /\ res[p].k = "arr"
            /\ res[p].a = SelectSeq(ingredients, Asked)
            /\ (ids = <<>> => res[p].a = <<>>)
            /\ \A q \in Req : Done(q, "Recipe.ingredients") => res[q] = res[p]

\* the recipe names an unknown id before a known one, and two requests have
\* resolved it: only the Tortillas record comes back, to both
C11_Witness ==
  \E p, q \in Req :
    /\ p # q
    /\ Done(p, "Recipe.ingredients") /\ Done(q, "Recipe.ingredients")
    /\ call[p].arg = Parent(ArrV(<<StrV(<<"9", "9", "9">>), StrV(<<"1", "0">>)>>))
    /\ Len(res[p].a) = 1 /\ res[p].a[1].quantity = "8"
    /\ res[q] = res[p]

(***************************************************************************)
(* consumer-grpc.js: the GET / handler.  The promisified client methods    *)
(* return a promise each; the callback of a call settles its promise, the  *)
(* reactions Promise.all registered run later, one per settled promise,    *)
(* and the handler resumes after its await once Promise.all's promise is   *)
(* settled.                                                                *)
(***************************************************************************)
\* the list handed to Promise.all: method and request, by position
CallList ==
  <<[method |-> "getMetaData", req |-> "{}"],
    [method |-> "getRecipe", req |-> "{id: 42}"],
    [method |-> "getName", req |-> "{name: st}"],
    [method |-> "getName", req |-> "{name: Ibukun}"]>>

\* what the producer may answer a call with
Payloads == {"a", "b"}

\* the values in the order the calls completed: results.push(value)
allValues_CompletionOrder(rpcs, completed) ==
  [i \in Calls |-> rpcs[completed[i]].val]

\* the array Promise.all fulfils with: the value of each promise at its index
allValues(rpcs, completed) == [i \in Calls |-> rpcs[i].val]

\* server.get('/'): the list is evaluated, which issues the four calls, and
\* the handler awaits Promise.all of their promises
Get ==
  /\ hpc = "idle"
  /\ rpc' = [i \in Calls |->
               [st |-> "pending", method |-> CallList[i].method,
                req |-> CallList[i].req, val |-> NoVal]]
  /\ all' = [st |-> "pending", values |-> <<>>, reason |-> NoVal]
  /\ hpc' = "awaiting"
  /\ UNCHANGED <<reacted, reply, order>>
  /\ UNCHANGED dataVars

\* the promisified callback of call i runs with a value: its promise is fulfilled
RpcSucceeds(i) ==
  /\ rpc[i].st = "pending"
  /\ \E d \in Payloads :
       rpc' = [rpc EXCEPT ![i].st = "ok",
                          ![i].val = [method |-> rpc[i].method, data |-> d]]
  /\ order' = Append(order, i)
  /\ UNCHANGED <<hpc, reacted, all, reply>>
  /\ UNCHANGED dataVars

\* the promisified callback of call i runs with an error: its promise is rejected
RpcFails(i) ==
  /\ rpc[i].st = "pending"
  /\ rpc' = [rpc EXCEPT ![i].st = "err",
                        ![i].val = [method |-> rpc[i].method, data |-> "error"]]
  /\ order' = Append(order, i)
  /\ UNCHANGED <<hpc, reacted, all, reply>>
  /\ UNCHANGED dataVars

\* Promise.all's reaction to the settlement of promise i: the first rejection
\* rejects its promise, the last fulfilment fulfils it, and a settled promise
\* stays as it is
AllReacts(i) ==
  /\ rpc[i].st \in {"ok", "err"}
  /\ i \notin reacted
  /\ reacted' = reacted \cup {i}
  /\ all' =
       IF all.st # "pending" THEN all
       ELSE IF rpc[i].st = "err"
         THEN [st |-> "rejected", values |-> <<>>, reason |-> rpc[i].val]
       ELSE IF \A j \in Calls : j \in reacted' /\ rpc[j].st = "ok"
         THEN [st |-> "fulfilled", values |-> allValues(rpc, order), reason |-> NoVal]
       ELSE all
  /\ UNCHANGED <<hpc, rpc, reply, order>>
  /\ UNCHANGED dataVars

\* the handler after its await: it destructures [meta, recipe, name1, name2]
\* and returns the response, or the rejection is thrown out of the handler
HandlerResumes ==
  /\ hpc = "awaiting"
  /\ all.st \in {"fulfilled", "rejected"}
  /\ IF all.st = "fulfilled"
       THEN /\ reply' = [sent |-> TRUE, consumer_pid |-> "process.pid",
                         producer_data |-> all.values[1], recipe |-> all.values[2],
                         name1 |-> all.values[3], name2 |-> all.values[4]]
            /\ hpc' = "responded"
       ELSE /\ reply' = reply
            /\ hpc' = "failed"
  /\ UNCHANGED <<rpc, reacted, all, order>>
  /\ UNCHANGED dataVars

InitGrpc ==
  /\ recipes = SeedRecipes
  /\ ingredients = SeedIngredients
  /\ pc = [p \in Req |-> "idle"]
  /\ call = [p \in Req |-> NoCall]
  /\ res = [p \in Req |-> UndefinedRet]
  /\ view = [p \in Req |-> <<>>]
  /\ mutations = 0
  /\ GrpcIdle

NextGrpc ==
  \/ Get
  \/ \E i \in Calls : RpcSucceeds(i)
  \/ \E i \in Calls : RpcFails(i)
  \/ \E i \in Calls : AllReacts(i)
  \/ HandlerResumes

SpecGrpc == InitGrpc /\ [][NextGrpc]_vars

\* nothing of the request is left to run
Settled ==
  /\ hpc # "idle"
  /\ \A i \in Calls : rpc[i].st \in {"ok", "err"} /\ i \in reacted
  /\ ~(hpc = "awaiting" /\ all.st \in {"fulfilled", "rejected"})

(***************************************************************************)
(* C12.  The GET / handler issues getMetaData, getRecipe and the two       *)
(* getName calls together and aggregates them all or nothing: it responds  *)
(* only once all four have succeeded; meta, recipe, name1 and name2 are    *)
(* the results of the first, second, third and fourth call of the list in  *)
(* whatever order the calls completed; and when a call fails the handler   *)
(* fails and returns no response, partial or other.                        *)
(***************************************************************************)
C12_AllOrNothingByPosition ==
  /\ hpc # "idle" =>
       \A i \in Calls :
         rpc[i].st # "none" /\ rpc[i].method = CallList[i].method
           /\ rpc[i].req = CallList[i].req
  /\ hpc = "responded" =>
       /\ \A i \in Calls : rpc[i].st = "ok"
       /\ reply.sent
       /\ reply.producer_data = rpc[1].val /\ reply.recipe = rpc[2].val
       /\ reply.name1 = rpc[3].val /\ reply.name2 = rpc[4].val
  /\ hpc # "responded" => reply = NoReply
  /\ (\E i \in Calls : rpc[i].st = "err") => hpc # "responded"
  /\ hpc = "failed" => \E i \in Calls : rpc[i].st = "err" /\ all.reason = rpc[i].val
  /\ Settled =>
       IF \E i \in Calls : rpc[i].st = "err" THEN hpc = "failed" ELSE hpc = "responded"

\* the calls completed last to first, the two getName calls with different
\* answers, and the handler has responded
C12_Witness ==
  /\ hpc = "responded"
  /\ order = <<4, 3, 2, 1>>
  /\ rpc[3].val.data = "a" /\ rpc[4].val.data = "b" /\ rpc[1].val.data = "b"
  /\ reply.name1.data = "a" /\ reply.name2.data = "b"

=============================================================================
